---- MODULE Spec2Model ----
(***************************************************************************)
(* State-machine model of the text/label editor component App             *)
(* (src/unnamed/part_000, with the earlier revision src/src/App.tsx where *)
(* the two differ).  Strings are sequences of one-character strings.      *)
(***************************************************************************)
EXTENDS Integers, Sequences, FiniteSets, TLC

VARIABLES
    texts,                 \* useState<TextElement[]>      (part_000:27)
    selectedId,            \* useState<string | null>      (part_000:28), NoId = null
    isDragging,            \* part_000:29
    newText,               \* part_000:30
    batchData,             \* part_000:38
    currentBatchIndex,     \* part_000:39 (0-based, as in the code)
    isExporting,           \* part_000:40
    isCapturing,           \* part_000:41
    availablePlaceholders, \* part_000:42
    dragStartPosRef,       \* part_000:44, <<>> = null, <<[x, y]>> otherwise
    listener,              \* the window's listeners in order of registration, one entry for
                           \* the mousemove and mouseup pair of a render (part_000:426-433)
    clock,                 \* value Date.now() returns
    exportRun,             \* suspended exportToPDF call: its locals across the await
    saved,                 \* output of the step: <<>>, or <<[name, pages]>> given to pdf.save
    alert,                 \* output of the step: the message alert() showed, or "none"
    fontSize,              \* toolbar default, part_000:32
    textAlign,             \* part_000:33
    isBold,                \* part_000:34
    isItalic,              \* part_000:35
    lineHeight,            \* part_000:36, in tenths (15 is 1.5)
    padding,               \* part_000:37
    overflowTimer,         \* the timeout of part_000:437 is pending
    rp                     \* harness of the pure function replacePlaceholders

storeVars == <<texts, selectedId, isDragging, dragStartPosRef, listener>>
inputVars == <<newText, clock>>
batchVars == <<batchData, currentBatchIndex, availablePlaceholders>>
exportVars == <<isExporting, isCapturing, exportRun>>
outputVars == <<saved, alert>>
styleVars == <<fontSize, textAlign, isBold, isItalic, lineHeight, padding>>

vars == <<storeVars, inputVars, batchVars, exportVars, styleVars, outputVars,
          overflowTimer, rp>>

-----------------------------------------------------------------------------
(* Bounds of the model *)
MaxTexts == 2
MaxClock == 2
MaxPieces == 3
MaxTextLen == 6

-----------------------------------------------------------------------------
(* Strings *)
WordChars == {"a", "b"}
LB == "{"
RB == "}"
Token(key) == <<LB, LB>> \o key \o <<RB, RB>>
Bracketed(key) == <<"[">> \o key \o <<"]">>

RECURSIVE Flatten(_)
Flatten(ss) == IF ss = <<>> THEN <<>> ELSE Head(ss) \o Flatten(Tail(ss))

\* String.prototype.trim() is non-empty: some character is not white space
TrimNonEmpty(s) == \E i \in 1..Len(s) : s[i] # " "

RECURSIVE TrimLeft(_)
TrimLeft(s) == IF s # <<>> /\ Head(s) = " " THEN TrimLeft(Tail(s)) ELSE s
RECURSIVE TrimRight(_)
TrimRight(s) ==
    IF s # <<>> /\ s[Len(s)] = " " THEN TrimRight(SubSeq(s, 1, Len(s) - 1)) ELSE s
Trim(s) == TrimRight(TrimLeft(s))

-----------------------------------------------------------------------------
(* Placeholder engine: text.replace(/\{\{(\w+)\}\}/g, callback) *)

\* index of the last character of the run of \w characters that starts at i
\* (i - 1 when s[i] is no word character)
RECURSIVE WordRunEnd(_, _)
WordRunEnd(s, i) ==
    IF i <= Len(s) /\ s[i] \in WordChars THEN WordRunEnd(s, i + 1) ELSE i - 1

\* a match of \{(\w+)\}, single braces, that starts at i; 0 if none
MatchEndSingleBrace(s, i) ==
    IF i <= Len(s) /\ s[i] = LB
    THEN LET e == WordRunEnd(s, i + 1)
         IN  IF e >= i + 1 /\ e + 1 <= Len(s) /\ s[e + 1] = RB THEN e + 1 ELSE 0
    ELSE 0

\* index of the last character of a match of \{\{(\w+)\}\} that starts at i, 0 if none
MatchEnd(s, i) ==
    IF i + 1 <= Len(s) /\ s[i] = LB /\ s[i + 1] = LB
    THEN LET e == WordRunEnd(s, i + 2)
         IN  IF e >= i + 2 /\ e + 2 <= Len(s) /\ s[e + 1] = RB /\ s[e + 2] = RB
             THEN e + 2
             ELSE 0
    ELSE 0

\* the replace callback of part_000:264 with an inverted test
FallbackSwapped(data, key, match) ==
    IF key \in DOMAIN data THEN Bracketed(key) ELSE match

\* part_000:263-265: data[key] !== undefined ? data[key] : `[${key}]`
ExportCallback(data, key, match) ==
    IF key \in DOMAIN data THEN data[key] ELSE Bracketed(key)

\* App.tsx:254: data[key] || match  (the empty string is falsy)
PreviewCallback(data, key, match) ==
    IF key \in DOMAIN data /\ data[key] # <<>> THEN data[key] ELSE match

\* the global replace with the pattern \{(\w+)\}
RECURSIVE ReplaceAllSingleBrace(_, _, _)
ReplaceAllSingleBrace(s, i, data) ==
    IF i > Len(s) THEN <<>>
    ELSE LET e == MatchEndSingleBrace(s, i)
         IN  IF e = 0
             THEN <<s[i]>> \o ReplaceAllSingleBrace(s, i + 1, data)
             ELSE ExportCallback(data, SubSeq(s, i + 1, e - 1), SubSeq(s, i, e))
                      \o ReplaceAllSingleBrace(s, e + 1, data)

\* the global replace: scan left to right, a match is consumed whole and its
\* replacement is not scanned again
RECURSIVE ReplaceAllExport(_, _, _)
ReplaceAllExport(s, i, data) ==
    IF i > Len(s) THEN <<>>
    ELSE LET e == MatchEnd(s, i)
         IN  IF e = 0
             THEN <<s[i]>> \o ReplaceAllExport(s, i + 1, data)
             ELSE ExportCallback(data, SubSeq(s, i + 2, e - 2), SubSeq(s, i, e))
                      \o ReplaceAllExport(s, e + 1, data)

RECURSIVE ReplaceAllPreview(_, _, _)
ReplaceAllPreview(s, i, data) ==
    IF i > Len(s) THEN <<>>
    ELSE LET e == MatchEnd(s, i)
         IN  IF e = 0
             THEN <<s[i]>> \o ReplaceAllPreview(s, i + 1, data)
             ELSE PreviewCallback(data, SubSeq(s, i + 2, e - 2), SubSeq(s, i, e))
                      \o ReplaceAllPreview(s, e + 1, data)

\* a row or null: <<>> is null, <<r>> the row r (a function from keys to values)
NoRow == <<>>

\* a substitution that scans its own result once more
replacePlaceholdersTwice(text, data) ==
    IF data = NoRow THEN text
    ELSE ReplaceAllExport(ReplaceAllExport(text, 1, data[1]), 1, data[1])

\* part_000:261-266
replacePlaceholders(text, data) ==
    IF data = NoRow THEN text ELSE ReplaceAllExport(text, 1, data[1])

\* src/src/App.tsx:253-255 (called with a row only)
replacePlaceholdersApp(text, data) == ReplaceAllPreview(text, 1, data[1])

-----------------------------------------------------------------------------
(* Text element store *)

NoId == 0
canvasWidth == 794
canvasHeight == 370
MinWidth == 100


Ids(ts) == {ts[i].id : i \in 1..Len(ts)}
HasId(ts, id) == \E i \in 1..Len(ts) : ts[i].id = id
\* texts.find(t => t.id === id): the first element with that id
Find(ts, id) == ts[CHOOSE i \in 1..Len(ts) :
                      ts[i].id = id /\ \A j \in 1..(i - 1) : ts[j].id # id]
\* texts.map(t => t.id === id ? {...t, ...updates} : t), updates as a function
\* from field names to values
\* { ...text, ...updates }
Merge(text, updates) ==
    [k \in DOMAIN text |-> IF k \in DOMAIN updates THEN updates[k] ELSE text[k]]
\* texts.map(text => text.id === id ? { ...text, ...updates } : text)
MapId(ts, id, updates) ==
    [i \in 1..Len(ts) |-> IF ts[i].id = id THEN Merge(ts[i], updates) ELSE ts[i]]
Filter(ts, id) == SelectSeq(ts, LAMBDA t : t.id # id)

\* an element made with the style of the first render instead of the defaults
NewElementInitialStyle(text, now) ==
    [id |-> now, text |-> text, x |-> 50, y |-> 50, fontSize |-> 16,
     align |-> "left", bold |-> FALSE, italic |-> FALSE,
     lineHeight |-> 15, padding |-> 0, isOverflowing |-> "undefined"]

\* part_000:111-122 and 131-142
NewElement(text, now) ==
    [id |-> now, text |-> text, x |-> 50, y |-> 50, fontSize |-> fontSize,
     align |-> textAlign, bold |-> isBold, italic |-> isItalic,
     lineHeight |-> lineHeight, padding |-> padding, isOverflowing |-> "undefined"]

\* part_000:429-432, the effect's cleanup: it removes the two listeners its
\* run added, the last registered
Cleanup(l) == SubSeq(l, 1, Len(l) - 1)

\* an effect that registers the listeners of the render without the cleanup
\* of the previous run
ListenerAfterNoCleanup(ts, d, s) ==
    IF d = isDragging /\ s = selectedId
    THEN listener
    ELSE Append(listener, [texts |-> ts, isDragging |-> d, selectedId |-> s])

\* useEffect(..., [isDragging, selectedId]), part_000:425-433: when a dependency
\* changed the cleanup of the previous run removes its listeners and the
\* listeners of the render, closing over its values, are registered
ListenerAfter(ts, d, s) ==
    IF d = isDragging /\ s = selectedId
    THEN listener
    ELSE Append(Cleanup(listener), [texts |-> ts, isDragging |-> d, selectedId |-> s])

-----------------------------------------------------------------------------
(* Inputs *)
KeyA == <<"a">>
KeyB == <<"b">>
\* what the user types into the "Enter text" box
NewTextInputs == {<<>>, <<" ">>, <<"b", " ">>}
\* pointer positions relative to the canvas' top-left corner, and grab offsets
Pointers == {[x |-> -20, y |-> -20], [x |-> 300, y |-> 200], [x |-> 900, y |-> 500]}
GrabOffsets == {[x |-> 5, y |-> 5]}
MouseTargets == {"handle", "chrome", "padding", "editable"}
Max(a, b) == IF a >= b THEN a ELSE b
Min(a, b) == IF a <= b THEN a ELSE b

\* a step that saves no document and shows no message
NoOutput == saved' = <<>> /\ alert' = "none"

\* part_000:435-441: a render in which texts, batchData or currentBatchIndex
\* is a new value (set tells so) clears the pending timeout and sets one
Debounce(set) == overflowTimer' = (set \/ overflowTimer)

\* Date.now() at an event: the clock's last reading or a later one
Now == clock..Min(clock + 1, MaxClock)

-----------------------------------------------------------------------------
(* Operations of the store *)

\* onChange of the text input, part_000:486
SetNewText(s) ==
    /\ newText # s
    /\ newText' = s
    /\ UNCHANGED <<storeVars, clock, batchVars, exportVars, styleVars, rp>>
    /\ NoOutput
    /\ Debounce(FALSE)

\* part_000:129-147 (with an empty or blank input the handler does nothing)
HandleAddText(now) ==
    /\ IF TrimNonEmpty(newText)
       THEN /\ Len(texts) < MaxTexts
            /\ texts' = Append(texts, NewElement(Trim(newText), now))
            /\ newText' = <<>>
       ELSE UNCHANGED <<texts, newText>>
    /\ clock' = now
    /\ UNCHANGED <<selectedId, isDragging, dragStartPosRef, listener,
                   batchVars, exportVars, styleVars, rp>>
    /\ NoOutput
    /\ Debounce(TrimNonEmpty(newText))

\* part_000:92-127; range is window.getSelection()?.getRangeAt(0): <<>> when
\* there is none, else <<[startOffset, endOffset]>>
InsertPlaceholder(placeholder, range, now) ==
    /\ \E i \in 1..Len(availablePlaceholders) : availablePlaceholders[i] = placeholder
    /\ IF selectedId # NoId
       THEN /\ HasId(texts, selectedId)
            /\ range # <<>>
            /\ LET t == Find(texts, selectedId)
                   beforeCursor == SubSeq(t.text, 1, Min(range[1].startOffset, Len(t.text)))
                   afterCursor == SubSeq(t.text, range[1].endOffset + 1, Len(t.text))
                   new == beforeCursor \o Token(placeholder) \o afterCursor
               IN  /\ Len(new) <= MaxTextLen
                   /\ texts' = MapId(texts, selectedId,
                                     [text |-> new])
            /\ UNCHANGED <<selectedId, listener>>
       ELSE /\ Len(texts) < MaxTexts
            /\ LET ts == Append(texts, NewElement(Token(placeholder), now))
               IN  /\ texts' = ts
                   /\ listener' = ListenerAfter(ts, isDragging, now)
            /\ selectedId' = now
    /\ clock' = now
    /\ UNCHANGED <<isDragging, dragStartPosRef, newText, batchVars, exportVars,
                   styleVars, rp>>
    /\ NoOutput
    /\ Debounce(TRUE)

\* part_000:228-232; the button is rendered only while not exporting (683-698)
DeleteText(id) ==
    /\ ~isExporting
    /\ HasId(texts, id)
    /\ LET ts == Filter(texts, id)
       IN  /\ texts' = ts
           /\ listener' = ListenerAfter(ts, isDragging, NoId)
    /\ selectedId' = NoId
    /\ UNCHANGED <<isDragging, dragStartPosRef, inputVars, batchVars, exportVars,
                   styleVars, rp>>
    /\ NoOutput
    /\ Debounce(TRUE)

\* part_000:245-258; the button is rendered only while not exporting (683-692)
DuplicateText(id, now) ==
    /\ ~isExporting
    /\ HasId(texts, id)
    /\ Len(texts) < MaxTexts
    /\ LET textToDuplicate == Find(texts, id)
           dup == [textToDuplicate EXCEPT !.id = now,
                                          !.x = textToDuplicate.x + 20,
                                          !.y = textToDuplicate.y + 20]
           ts == Append(texts, dup)
       IN  /\ texts' = ts
           /\ listener' = ListenerAfter(ts, isDragging, now)
    /\ selectedId' = now
    /\ clock' = now
    /\ UNCHANGED <<isDragging, dragStartPosRef, newText, batchVars, exportVars,
                   styleVars, rp>>
    /\ NoOutput
    /\ Debounce(TRUE)

\* a clear that does not wait for the answer of window.confirm
ClearAllTextsUnasked(confirmed) ==
    /\ texts' = <<>>
    /\ selectedId' = NoId
    /\ listener' = ListenerAfter(<<>>, isDragging, NoId)
    /\ UNCHANGED <<isDragging, dragStartPosRef, inputVars, batchVars, exportVars,
                   styleVars, rp>>
    /\ NoOutput
    /\ Debounce(TRUE)

\* part_000:294-300; confirmed is the answer to window.confirm
ClearAllTexts(confirmed) ==
    /\ IF confirmed
       THEN /\ texts' = <<>>
            /\ selectedId' = NoId
            /\ listener' = ListenerAfter(<<>>, isDragging, NoId)
       ELSE UNCHANGED <<texts, selectedId, listener>>
    /\ UNCHANGED <<isDragging, dragStartPosRef, inputVars, batchVars, exportVars,
                   styleVars, rp>>
    /\ NoOutput
    /\ Debounce(confirmed)

-----------------------------------------------------------------------------
(* Canvas interaction *)

\* what the element offers to press: the chrome row (move handle, buttons) is
\* rendered only while not exporting (683-707), the padding strip exists when
\* the element has padding (678), the editable text always (708-718)
CanPress(t, target) ==
    CASE target \in {"handle", "chrome"} -> ~isExporting
      [] target = "padding" -> t.padding > 0
      [] OTHER -> TRUE

\* part_000:149-164
HandleMouseDown(id, button, target, offset) ==
    /\ HasId(texts, id)
    /\ CanPress(Find(texts, id), target)
    /\ IF button = 0
       THEN IF target = "handle" \/ target # "editable"
            THEN /\ selectedId' = id
                 /\ isDragging' = TRUE
                 /\ dragStartPosRef' = <<offset>>
                 /\ listener' = ListenerAfter(texts, TRUE, id)
            ELSE /\ selectedId' = id
                 /\ listener' = ListenerAfter(texts, isDragging, id)
                 /\ UNCHANGED <<isDragging, dragStartPosRef>>
       ELSE UNCHANGED <<selectedId, isDragging, dragStartPosRef, listener>>
    /\ UNCHANGED <<texts, inputVars, batchVars, exportVars, styleVars, rp>>
    /\ NoOutput
    /\ Debounce(FALSE)

\* part_000:174: Math.max(0, Math.min(v, limit - footprint))
Clamp(v, footprint, limit) == Max(0, Min(v, limit - footprint))

\* part_000:167, the guard of handleMouseMove for a listener closure l and the
\* value ref of dragStartPosRef.current (canvasRef.current is set)
Moves(l, ref) == l.isDragging /\ l.selectedId # NoId /\ ref # <<>>

\* a pointer release that leaves the grab offset in the ref
HandleMouseUpKeepsOffset ==
    /\ listener # <<>>
    /\ isDragging' = FALSE
    /\ listener' = ListenerAfter(texts, FALSE, selectedId)
    /\ UNCHANGED <<texts, selectedId, dragStartPosRef, inputVars, batchVars,
                   exportVars, styleVars, rp>>
    /\ NoOutput
    /\ Debounce(FALSE)

\* the registered listeners whose guard holds at a mousemove
Moving == SelectSeq(listener, LAMBDA l : Moves(l, dragStartPosRef))

\* part_000:166-178, a mousemove on window; each registered listener reads
\* isDragging, selectedId and texts of the render that registered it, and the
\* ref as it is; of several calls of setTexts the last one stands
HandleMouseMove(e) ==
    /\ IF Moving # <<>>
       THEN LET l == Moving[Len(Moving)]
                x == e.x - dragStartPosRef[1].x
                y == e.y - dragStartPosRef[1].y
            IN  texts' = MapId(l.texts, l.selectedId,
                               [x |-> Clamp(x, 100, canvasWidth),
                                y |-> Clamp(y, 30, canvasHeight)])
       ELSE UNCHANGED texts
    /\ UNCHANGED <<selectedId, isDragging, dragStartPosRef, listener, inputVars,
                   batchVars, exportVars, styleVars, rp>>
    /\ NoOutput
    /\ Debounce(Moving # <<>>)

\* part_000:180-183, a mouseup on window with a listener registered
HandleMouseUp ==
    /\ listener # <<>>
    /\ isDragging' = FALSE
    /\ dragStartPosRef' = <<>>
    /\ listener' = ListenerAfter(texts, FALSE, selectedId)
    /\ UNCHANGED <<texts, selectedId, inputVars, batchVars, exportVars,
                   styleVars, rp>>
    /\ NoOutput
    /\ Debounce(FALSE)

\* canvasRef.current: the canvas node is attached while the component is mounted
canvasRef == TRUE

\* the least box the layout gives an element: the CSS minWidth, and one line
\* of text under the chrome row (a 14px icon and its 4px margin) while that
\* row is rendered (part_000:667-707)
ElementWidth(t) == MinWidth
ElementHeight(t) ==
    (IF isExporting THEN 0 ELSE 18) + (t.fontSize * t.lineHeight) \div 10

\* part_000:279-281, with the element's box as the measured rectangle
Overflows(t) ==
    \/ t.x + ElementWidth(t) > canvasWidth
    \/ t.y + ElementHeight(t) > canvasHeight
Flag(b) == IF b THEN "true" ELSE "false"

\* part_000:274-288, updatedTexts of a list
UpdatedTexts(ts) ==
    [i \in 1..Len(ts) |->
        IF Flag(Overflows(ts[i])) # ts[i].isOverflowing
        THEN [ts[i] EXCEPT !.isOverflowing = Flag(Overflows(ts[i]))]
        ELSE ts[i]]

\* a check that writes its list back whether or not a flag differs
CheckTextOverflowUnguarded ==
    /\ overflowTimer
    /\ canvasRef
    /\ texts' = UpdatedTexts(texts)
    /\ overflowTimer' = TRUE
    /\ UNCHANGED <<selectedId, isDragging, dragStartPosRef, listener, inputVars,
                   batchVars, exportVars, styleVars, rp>>
    /\ NoOutput

\* part_000:269-292 run by the timeout of 437; a write is a new texts value,
\* after which the effect of 435-441 sets the timeout again
CheckTextOverflow ==
    /\ overflowTimer
    /\ canvasRef
    /\ IF UpdatedTexts(texts) # texts
       THEN /\ texts' = UpdatedTexts(texts)
            /\ overflowTimer' = TRUE
       ELSE /\ UNCHANGED texts
            /\ overflowTimer' = FALSE
    /\ UNCHANGED <<selectedId, isDragging, dragStartPosRef, listener, inputVars,
                   batchVars, exportVars, styleVars, rp>>
    /\ NoOutput

\* the component is mounted: the effect of 425-433 has its listeners registered
Mounted == listener # <<>>

\* a teardown that clears the timeout and leaves the window's listeners
UnmountKeepsListeners ==
    /\ Mounted
    /\ overflowTimer' = FALSE
    /\ UNCHANGED <<storeVars, inputVars, batchVars, exportVars, styleVars, rp>>
    /\ NoOutput

\* teardown of the component: React runs the cleanups of its effects
\* (part_000:429-432 and 440)
Unmount ==
    /\ Mounted
    /\ listener' = Cleanup(listener)
    /\ overflowTimer' = FALSE
    /\ UNCHANGED <<texts, selectedId, isDragging, dragStartPosRef, inputVars,
                   batchVars, exportVars, styleVars, rp>>
    /\ NoOutput

\* the text the contentEditable node shows, part_000:715-717
ShownAt(t, data, index) ==
    IF Len(data) > 0 /\ index < Len(data)
    THEN replacePlaceholders(t.text, <<data[index + 1]>>)
    ELSE t.text
Shown(t) == ShownAt(t, batchData, currentBatchIndex)

\* the node's innerText after the user's edit of the shown text
Edits == {"append", "backspace", "clear"}
Edited(s, edit) ==
    CASE edit = "append" -> Append(s, "b")
      [] edit = "backspace" -> IF s = <<>> THEN s ELSE SubSeq(s, 1, Len(s) - 1)
      [] OTHER -> <<>>

\* part_000:185-193, onInput of the contentEditable node of element id
HandleTextChange(id, edit) ==
    /\ HasId(texts, id)
    /\ LET innerText == Edited(Shown(Find(texts, id)), edit)
       IN  /\ Len(innerText) <= MaxTextLen
           /\ texts' = MapId(texts, id, [text |-> innerText])
    /\ UNCHANGED <<selectedId, isDragging, dragStartPosRef, listener, inputVars,
                   batchVars, exportVars, styleVars, rp>>
    /\ NoOutput
    /\ Debounce(TRUE)

-----------------------------------------------------------------------------
(* Style toolbar *)

\* part_000:234-243
updateSelectedText(updates) ==
    IF selectedId # NoId
    THEN texts' = MapId(texts, selectedId, updates)
    ELSE UNCHANGED texts

StyleFrame ==
    UNCHANGED <<selectedId, isDragging, dragStartPosRef, listener,
                inputVars, batchVars, exportVars, rp>>
    /\ NoOutput
    /\ Debounce(selectedId # NoId)

\* a stepper without Math.max / Math.min
FontSizeStepUnclamped(dir) ==
    /\ LET newSize == fontSize + 2 * dir
       IN  /\ fontSize' = newSize
           /\ updateSelectedText([fontSize |-> newSize])
    /\ UNCHANGED <<textAlign, isBold, isItalic, lineHeight, padding>>
    /\ StyleFrame

\* part_000:537-557, dir is -1 (minus button) or 1 (plus button)
FontSizeStep(dir) ==
    /\ LET newSize == IF dir < 0 THEN Max(8, fontSize - 2) ELSE Min(72, fontSize + 2)
       IN  /\ fontSize' = newSize
           /\ updateSelectedText([fontSize |-> newSize])
    /\ UNCHANGED <<textAlign, isBold, isItalic, lineHeight, padding>>
    /\ StyleFrame

\* part_000:560-589
SetAlign(newAlign) ==
    /\ textAlign' = newAlign
    /\ updateSelectedText([align |-> newAlign])
    /\ UNCHANGED <<fontSize, isBold, isItalic, lineHeight, padding>>
    /\ StyleFrame

\* part_000:593-602
ToggleBold ==
    /\ isBold' = ~isBold
    /\ updateSelectedText([bold |-> ~isBold])
    /\ UNCHANGED <<fontSize, textAlign, isItalic, lineHeight, padding>>
    /\ StyleFrame

\* part_000:603-612
ToggleItalic ==
    /\ isItalic' = ~isItalic
    /\ updateSelectedText([italic |-> ~isItalic])
    /\ UNCHANGED <<fontSize, textAlign, isBold, lineHeight, padding>>
    /\ StyleFrame

\* part_000:617-629, the slider's value in tenths
SetLineHeight(newLineHeight) ==
    /\ lineHeight' = newLineHeight
    /\ updateSelectedText([lineHeight |-> newLineHeight])
    /\ UNCHANGED <<fontSize, textAlign, isBold, isItalic, padding>>
    /\ StyleFrame

\* part_000:634-646
SetPadding(newPadding) ==
    /\ padding' = newPadding
    /\ updateSelectedText([padding |-> newPadding])
    /\ UNCHANGED <<fontSize, textAlign, isBold, isItalic, lineHeight>>
    /\ StyleFrame

\* part_000:443, texts.find(text => text.id === selectedId): <<>> when
\* nothing is found, <<t>> otherwise
selectedText ==
    IF HasId(texts, selectedId) THEN <<Find(texts, selectedId)>> ELSE <<>>

\* what the toolbar shows, selectedText?.field || default (part_000:547-647);
\* 0 and false are falsy
DisplayedFontSize ==
    IF selectedText # <<>> /\ selectedText[1].fontSize # 0
    THEN selectedText[1].fontSize ELSE fontSize
DisplayedAlign ==
    IF selectedText # <<>> THEN selectedText[1].align ELSE textAlign
DisplayedBold ==
    IF selectedText # <<>> /\ selectedText[1].bold THEN TRUE ELSE isBold
DisplayedItalic ==
    IF selectedText # <<>> /\ selectedText[1].italic THEN TRUE ELSE isItalic
DisplayedLineHeight ==
    IF selectedText # <<>> /\ selectedText[1].lineHeight # 0
    THEN selectedText[1].lineHeight ELSE lineHeight
DisplayedPadding ==
    IF selectedText # <<>> /\ selectedText[1].padding # 0
    THEN selectedText[1].padding ELSE padding

-----------------------------------------------------------------------------
(* Batch controller *)

Row1 == (KeyA :> <<"b">>) @@ (KeyB :> <<>>)
Row2 == (KeyA :> <<" ">>)
\* results.data of a parse: no row, one row, two rows the second of which is
\* short of a column
CsvInputs == {<<>>, <<Row1>>, <<Row1, Row2>>}
\* Object.keys(row), in header order
KeyOrder == <<KeyA, KeyB>>
Keys(row) == SelectSeq(KeyOrder, LAMBDA k : k \in DOMAIN row)

\* a load that replaces the rows and keeps the cursor where it was
CSVCompleteKeepsCursor(data) ==
    /\ IF Len(data) > 0
       THEN /\ batchData' = data
            /\ availablePlaceholders' = Keys(data[1])
            /\ UNCHANGED currentBatchIndex
       ELSE UNCHANGED batchVars
    /\ UNCHANGED <<storeVars, inputVars, exportVars, styleVars, rp>>
    /\ NoOutput
    /\ Debounce(Len(data) > 0)

\* part_000:74-83, the complete callback of Papa.parse
CSVComplete(data) ==
    /\ IF Len(data) > 0
       THEN /\ batchData' = data
            /\ currentBatchIndex' = 0
            /\ availablePlaceholders' = Keys(data[1])
       ELSE UNCHANGED batchVars
    /\ UNCHANGED <<storeVars, inputVars, exportVars, styleVars, rp>>
    /\ NoOutput
    /\ Debounce(Len(data) > 0)

\* an error callback that also drops the loaded table
CSVErrorClears ==
    /\ alert' = "Error parsing CSV file"
    /\ saved' = <<>>
    /\ batchData' = <<>>
    /\ currentBatchIndex' = 0
    /\ availablePlaceholders' = <<>>
    /\ UNCHANGED <<storeVars, inputVars, exportVars, styleVars, rp>>
    /\ Debounce(TRUE)

\* part_000:84-87, the error callback
CSVError ==
    /\ alert' = "Error parsing CSV file"
    /\ saved' = <<>>
    /\ UNCHANGED <<storeVars, inputVars, batchVars, exportVars, styleVars, rp>>
    /\ Debounce(FALSE)

\* part_000:730-736
Previous ==
    /\ Len(batchData) > 0
    /\ currentBatchIndex # 0
    /\ currentBatchIndex' = Max(0, currentBatchIndex - 1)
    /\ UNCHANGED <<batchData, availablePlaceholders, storeVars, inputVars,
                   exportVars, styleVars, rp>>
    /\ NoOutput
    /\ Debounce(TRUE)

\* part_000:740-746
NextRow ==
    /\ Len(batchData) > 0
    /\ currentBatchIndex # Len(batchData) - 1
    /\ currentBatchIndex' = Min(Len(batchData) - 1, currentBatchIndex + 1)
    /\ UNCHANGED <<batchData, availablePlaceholders, storeVars, inputVars,
                   exportVars, styleVars, rp>>
    /\ NoOutput
    /\ Debounce(TRUE)

-----------------------------------------------------------------------------
(* Export orchestrator, part_000:303-423 *)


\* pages from the current row only, whatever allPages is
PagesCurrentOnly(allPages, data, index) ==
    IF Len(data) > 0 THEN <<<<data[index + 1]>>>> ELSE <<NoRow>>

\* part_000:330-334; batchData[currentBatchIndex] past the end is undefined,
\* which the loop treats like null
PagesToExport(allPages, data, index) ==
    IF allPages /\ Len(data) > 0
    THEN [i \in 1..Len(data) |-> <<data[i]>>]
    ELSE IF Len(data) > 0
         THEN <<IF index < Len(data) THEN <<data[index + 1]>> ELSE NoRow>>
         ELSE <<NoRow>>

\* part_000:369-372
FontStyle(text) ==
    IF text.bold /\ text.italic THEN "bolditalic"
    ELSE IF text.bold THEN "bold"
    ELSE IF text.italic THEN "italic"
    ELSE "normal"

\* the export resolving tokens with the policy of App.tsx
RenderedTextOtherPolicy(text, currentData) ==
    IF currentData # NoRow THEN replacePlaceholdersApp(text.text, currentData) ELSE text.text

\* part_000:361-363
RenderedText(text, currentData) ==
    IF currentData # NoRow THEN replacePlaceholders(text.text, currentData) ELSE text.text

\* part_000:359-408, the texts drawn on one page, in list order; a text that
\* renders blank is skipped (366)
RECURSIVE DrawTexts(_, _)
DrawTexts(ts, currentData) ==
    IF ts = <<>> THEN <<>>
    ELSE LET text == Head(ts)
             renderedText == RenderedText(text, currentData)
         IN  (IF ~TrimNonEmpty(renderedText)
              THEN <<>>
              ELSE <<[text |-> renderedText, fontStyle |-> FontStyle(text),
                      fontSize |-> text.fontSize, align |-> text.align]>>)
                 \o DrawTexts(Tail(ts), currentData)

\* a page is added before every page
AddPageAlways(i) == TRUE

\* part_000:350, i counts from 0
AddPageBefore(i) == i > 0

\* part_000:315 and 346-409: new jsPDF() holds one empty page; pages i..last
\* of the loop applied to the document pdf
RECURSIVE PageLoop(_, _, _, _)
PageLoop(pdf, ts, pages, i) ==
    IF i >= Len(pages) THEN pdf
    ELSE LET doc == IF AddPageBefore(i) THEN Append(pdf, <<>>) ELSE pdf
             drawn == [doc EXCEPT ![Len(doc)] = @ \o DrawTexts(ts, pages[i + 1])]
         IN  PageLoop(drawn, ts, pages, i + 1)

NewPdf == <<<<>>>>
FileName(allPages) == IF allPages THEN "all-pages.pdf" ELSE "text-editor-export.pdf"

\* a finally block that clears the flags and leaves the list as it is
FinallyNoRestore ==
    /\ UNCHANGED texts
    /\ isExporting' = FALSE
    /\ isCapturing' = FALSE
    /\ exportRun' = <<>>
    /\ Debounce(FALSE)

\* a finally block that restores the list and clears isExporting alone
FinallyKeepsCapturing ==
    /\ texts' = exportRun[1].originalTexts
    /\ isExporting' = FALSE
    /\ UNCHANGED isCapturing
    /\ exportRun' = <<>>
    /\ Debounce(TRUE)

\* part_000:417-422
Finally ==
    /\ texts' = exportRun[1].originalTexts
    /\ isExporting' = FALSE
    /\ isCapturing' = FALSE
    /\ exportRun' = <<>>
    /\ Debounce(TRUE)

\* part_000:303-338, the click on an export button up to the await; the
\* button for all pages is rendered when there are batch rows (460), both
\* buttons are disabled while exporting (456, 465)
ExportStart(allPages) ==
    /\ canvasRef
    /\ ~isExporting
    /\ allPages => Len(batchData) > 0
    /\ isExporting' = TRUE
    /\ isCapturing' = TRUE
    /\ exportRun' = <<[texts |-> texts, batchData |-> batchData,
                       currentBatchIndex |-> currentBatchIndex, allPages |-> allPages,
                       originalTexts |-> texts,
                       pagesToExport |-> PagesToExport(allPages, batchData,
                                                       currentBatchIndex)]>>
    /\ UNCHANGED <<storeVars, inputVars, batchVars, styleVars, rp>>
    /\ NoOutput
    /\ Debounce(FALSE)

\* a page loop that reads the store, the rows and the cursor as they are when
\* the capture is fulfilled
CaptureResolveReadsStore(failAt) ==
    /\ exportRun # <<>>
    /\ failAt \in 0..Len(exportRun[1].pagesToExport)
    /\ IF failAt = 0
       THEN /\ saved' = <<[name |-> FileName(exportRun[1].allPages),
                           pages |-> PageLoop(NewPdf, texts,
                                              PagesToExport(exportRun[1].allPages,
                                                            batchData, currentBatchIndex),
                                              0)]>>
            /\ alert' = "none"
       ELSE /\ alert' = "Error exporting to PDF"
            /\ saved' = <<>>
    /\ Finally
    /\ UNCHANGED <<selectedId, isDragging, dragStartPosRef, listener, inputVars,
                   batchVars, styleVars, rp>>

\* the promise of html2canvas is fulfilled (343-412); failAt = 0 when no call
\* into the PDF library throws, else the page during which one does
CaptureResolve(failAt) ==
    /\ exportRun # <<>>
    /\ failAt \in 0..Len(exportRun[1].pagesToExport)
    /\ IF failAt = 0
       THEN /\ saved' = <<[name |-> FileName(exportRun[1].allPages),
                           pages |-> PageLoop(NewPdf, exportRun[1].texts,
                                              exportRun[1].pagesToExport, 0)]>>
            /\ alert' = "none"
       ELSE /\ alert' = "Error exporting to PDF"
            /\ saved' = <<>>
    /\ Finally
    /\ UNCHANGED <<selectedId, isDragging, dragStartPosRef, listener, inputVars,
                   batchVars, styleVars, rp>>

\* the promise of html2canvas is rejected (338, 414-422)
CaptureReject ==
    /\ exportRun # <<>>
    /\ alert' = "Error exporting to PDF"
    /\ saved' = <<>>
    /\ Finally
    /\ UNCHANGED <<selectedId, isDragging, dragStartPosRef, listener, inputVars,
                   batchVars, styleVars, rp>>

\* new jsPDF() or addFont throws (315-327): catch and finally run within the
\* click, which sets and clears isExporting and restores the list it read
ExportFailEarly(allPages) ==
    /\ canvasRef
    /\ ~isExporting
    /\ allPages => Len(batchData) > 0
    /\ alert' = "Error exporting to PDF"
    /\ saved' = <<>>
    /\ UNCHANGED <<storeVars, inputVars, batchVars, exportVars, styleVars, rp>>
    /\ Debounce(TRUE)

CanvasMissing == "Canvas reference is not available"

\* a missing-canvas return that has already raised the exporting flag
ExportNoCanvasFlagged(allPages) ==
    /\ ~isExporting
    /\ allPages => Len(batchData) > 0
    /\ alert' = CanvasMissing
    /\ saved' = <<>>
    /\ isExporting' = TRUE
    /\ UNCHANGED <<storeVars, inputVars, batchVars, isCapturing, exportRun,
                   styleVars, rp>>
    /\ Debounce(FALSE)

\* part_000:304-307: a call that finds canvasRef.current null (the canvas node
\* is not attached at the click) alerts and returns
ExportNoCanvas(allPages) ==
    /\ ~isExporting
    /\ allPages => Len(batchData) > 0
    /\ alert' = CanvasMissing
    /\ saved' = <<>>
    /\ UNCHANGED <<storeVars, inputVars, batchVars, exportVars, styleVars, rp>>
    /\ Debounce(FALSE)

-----------------------------------------------------------------------------
(* Specifications *)

\* the harness of replacePlaceholders: a template given as pieces (tokens and
\* literal characters), a row or null, and the result once a revision ran
Pieces == {Token(KeyA), Token(KeyB), Token(<<"a", "b">>), <<"b">>, <<" ">>, <<LB>>, <<RB>>}
Templates == UNION {[1..n -> Pieces] : n \in 0..MaxPieces}
Values == {<<>>, <<"b">>, Token(KeyA)}
Rows == UNION {[D -> Values] : D \in SUBSET {KeyA, KeyB}}
RPIdle == [pieces |-> <<>>, data |-> NoRow, out |-> <<>>, phase |-> "idle"]
RPInputs == {[pieces |-> t, data |-> d, out |-> <<>>, phase |-> "idle"] :
                 t \in Templates, d \in {NoRow} \cup {<<r>> : r \in Rows}}

EditorFrame ==
    /\ UNCHANGED <<storeVars, inputVars, batchVars, exportVars, styleVars>>
    /\ NoOutput
    /\ Debounce(FALSE)

\* a call of part_000's replacePlaceholders
RPExport ==
    /\ rp.phase = "idle"
    /\ rp' = [rp EXCEPT !.out = replacePlaceholders(Flatten(rp.pieces), rp.data),
                        !.phase = "export"]
    /\ EditorFrame

\* a call of App.tsx's replacePlaceholders (its callers pass a row)
RPPreview ==
    /\ rp.phase = "idle"
    /\ rp.data # NoRow
    /\ rp' = [rp EXCEPT !.out = replacePlaceholdersApp(Flatten(rp.pieces), rp.data),
                        !.phase = "preview"]
    /\ EditorFrame

\* a second call of part_000's replacePlaceholders, on the first call's result
RPAgain ==
    /\ rp.phase = "export"
    /\ rp' = [rp EXCEPT !.out = replacePlaceholders(rp.out, rp.data),
                        !.phase = "again"]
    /\ EditorFrame

\* the state after the first render, part_000:27-45
InitEditor ==
    /\ texts = <<>>
    /\ selectedId = NoId
    /\ isDragging = FALSE
    /\ newText = <<>>
    /\ batchData = <<>>
    /\ currentBatchIndex = 0
    /\ isExporting = FALSE
    /\ isCapturing = FALSE
    /\ availablePlaceholders = <<>>
    /\ dragStartPosRef = <<>>
    /\ listener = <<[texts |-> <<>>, isDragging |-> FALSE, selectedId |-> NoId]>>
    /\ clock = 1
    /\ exportRun = <<>>
    /\ saved = <<>>
    /\ alert = "none"
    /\ fontSize = 16
    /\ textAlign = "left"
    /\ isBold = FALSE
    /\ isItalic = FALSE
    /\ lineHeight = 15
    /\ padding = 0
    /\ overflowTimer = TRUE

Init == InitEditor /\ rp = RPIdle

\* the selection range at a click on a placeholder button
Ranges == {<<>>, <<[startOffset |-> 0, endOffset |-> 0]>>,
           <<[startOffset |-> 0, endOffset |-> 1]>>}

\* the editor around an export: creation, editing, batch rows and the export
Next ==
    \/ \E s \in {<<>>, Token(KeyA)} : SetNewText(s)
    \/ \E now \in Now : HandleAddText(now)
    \/ \E c \in BOOLEAN : ClearAllTexts(c)
    \/ \E id \in Ids(texts) : HandleTextChange(id, "clear")
    \/ \E d \in CsvInputs : CSVComplete(d)
    \/ Previous
    \/ NextRow
    \/ \E a \in BOOLEAN : ExportStart(a)
    \/ \E a \in BOOLEAN : ExportFailEarly(a)
    \/ \E k \in 0..2 : CaptureResolve(k)
    \/ CaptureReject

Spec == Init /\ [][Next]_vars

\* the promise html2canvas returned settles
CaptureSettles == (\E k \in 0..2 : CaptureResolve(k)) \/ CaptureReject
\* exports among creations and row loads, with every capture settling
NextExport ==
    \/ SetNewText(Token(KeyA))
    \/ \E now \in Now : HandleAddText(now)
    \/ \E d \in CsvInputs : CSVComplete(d)
    \/ NextRow
    \/ \E a \in BOOLEAN : ExportStart(a)
    \/ \E a \in BOOLEAN : ExportFailEarly(a)
    \/ \E k \in 0..2 : CaptureResolve(k)
    \/ CaptureReject

FairSpec == Init /\ [][NextExport]_vars /\ WF_vars(CaptureSettles)

\* previewing rows and exporting them, with templates whose key a row may lack
NextPreview ==
    \/ \E s \in {Token(KeyA), Token(KeyB)} : SetNewText(s)
    \/ \E now \in Now : HandleAddText(now)
    \/ \E d \in CsvInputs : CSVComplete(d)
    \/ Previous
    \/ NextRow
    \/ \E a \in BOOLEAN : ExportStart(a)
    \/ CaptureResolve(0)

SpecPreview == Init /\ [][NextPreview]_vars

\* results.data of the loads of the batch controller: CsvInputs and a table
\* whose first row is the short one
CsvLoads == CsvInputs \cup {<<Row2, Row1>>}

\* loading tables, moving the cursor, adding texts and inserting the published
\* placeholders
NextBatch ==
    \/ SetNewText(<<"b">>)
    \/ \E now \in Now : HandleAddText(now)
    \/ \E d \in CsvLoads : CSVComplete(d)
    \/ CSVError
    \/ Previous
    \/ NextRow
    \/ \E p \in {KeyA, KeyB}, range \in Ranges, now \in Now :
          InsertPlaceholder(p, range, now)

SpecBatch == Init /\ [][NextBatch]_vars

\* the toolbar defaults are as after the first render (part_000:32-37)
DefaultsUntouched ==
    /\ fontSize = 16 /\ textAlign = "left" /\ ~isBold /\ ~isItalic
    /\ lineHeight = 15 /\ padding = 0

\* styling: texts are added and selected by a click into their text, before
\* and after the one use of the toolbar that a behaviour makes
NextStyle ==
    \/ SetNewText(<<"b">>)
    \/ \E now \in Now : HandleAddText(now)
    \/ \E id \in Ids(texts), off \in GrabOffsets : HandleMouseDown(id, 0, "editable", off)
    \/ \E dir \in {-1, 1} : DefaultsUntouched /\ FontSizeStep(dir)
    \/ \E a \in {"left", "center", "right"} : DefaultsUntouched /\ SetAlign(a)
    \/ DefaultsUntouched /\ ToggleBold
    \/ DefaultsUntouched /\ ToggleItalic
    \/ \E h \in {10, 15, 30} : DefaultsUntouched /\ SetLineHeight(h)
    \/ \E q \in {0, 2, 50} : DefaultsUntouched /\ SetPadding(q)

SpecStyle == Init /\ [][NextStyle]_vars

\* the font-size stepper over its whole range, with one text that is added to
\* the empty canvas and selected by a click into it
NextFont ==
    \/ SetNewText(<<"b">>)
    \/ \E now \in Now : texts = <<>> /\ HandleAddText(now)
    \/ \E id \in Ids(texts), off \in GrabOffsets : HandleMouseDown(id, 0, "editable", off)
    \/ \E dir \in {-1, 1} : FontSizeStep(dir)

SpecFont == Init /\ [][NextFont]_vars

\* creating elements: texts typed into the box, placeholders of a loaded
\* table, and the one use of the toolbar that a behaviour makes
NextCreate ==
    \/ \E s \in NewTextInputs : SetNewText(s)
    \/ \E now \in Now : HandleAddText(now)
    \/ CSVComplete(<<Row1>>)
    \/ \E p \in {KeyA, KeyB}, range \in Ranges, now \in Now :
          InsertPlaceholder(p, range, now)
    \/ ClearAllTexts(TRUE)
    \/ DefaultsUntouched /\ FontSizeStep(1)
    \/ DefaultsUntouched /\ SetAlign("center")
    \/ DefaultsUntouched /\ ToggleBold
    \/ DefaultsUntouched /\ ToggleItalic
    \/ DefaultsUntouched /\ SetLineHeight(20)
    \/ DefaultsUntouched /\ SetPadding(2)

SpecCreate == Init /\ [][NextCreate]_vars

\* exports with the canvas node attached or not at the click
NextCanvas ==
    \/ SetNewText(Token(KeyA))
    \/ \E now \in Now : HandleAddText(now)
    \/ \E d \in CsvInputs : CSVComplete(d)
    \/ \E a \in BOOLEAN : ExportStart(a)
    \/ \E a \in BOOLEAN : ExportNoCanvas(a)
    \/ CaptureResolve(0)

SpecCanvas == Init /\ [][NextCanvas]_vars

\* dragging elements around the canvas
NextDrag ==
    \/ \E s \in {<<>>, <<"b">>} : SetNewText(s)
    \/ \E now \in Now : HandleAddText(now)
    \/ \E id \in Ids(texts), now \in Now : DuplicateText(id, now)
    \/ \E id \in Ids(texts), b \in {0, 2}, tg \in MouseTargets, off \in GrabOffsets :
          HandleMouseDown(id, b, tg, off)
    \/ \E e \in Pointers : HandleMouseMove(e)
    \/ HandleMouseUp

SpecDrag == Init /\ [][NextDrag]_vars

\* creating and removing elements
NextStore ==
    \/ \E s \in NewTextInputs : SetNewText(s)
    \/ \E now \in Now : HandleAddText(now)
    \/ \E d \in CsvInputs : CSVComplete(d)
    \/ \E p \in {KeyA, KeyB}, range \in Ranges, now \in Now :
          InsertPlaceholder(p, range, now)
    \/ \E id \in Ids(texts), now \in Now : DuplicateText(id, now)
    \/ \E id \in Ids(texts) : DeleteText(id)
    \/ \E c \in BOOLEAN : ClearAllTexts(c)

SpecStore == Init /\ [][NextStore]_vars

\* the placeholder engine on its own
InitRP == InitEditor /\ rp \in RPInputs
NextRP == RPExport \/ RPPreview \/ RPAgain
SpecRP == InitRP /\ [][NextRP]_vars

-----------------------------------------------------------------------------
(* Properties *)

ExportError == "Error exporting to PDF"
\* the step ends a suspended exportToPDF call
ExportEnds == exportRun # <<>> /\ exportRun' = <<>>
\* the step ends a suspended exportToPDF call with pdf.save
ExportSaves == exportRun # <<>> /\ saved' # <<>>
\* the texts drawn on a page, in order
PageTexts(page) == [k \in 1..Len(page) |-> page[k].text]
\* the non-blank members of a sequence of strings
NonBlank(ss) == SelectSeq(ss, TrimNonEmpty)
\* the texts of the list ts with the row's values put in, resp. as they are
Resolved(ts, row) == [j \in 1..Len(ts) |-> replacePlaceholders(ts[j].text, <<row>>)]
Verbatim(ts) == [j \in 1..Len(ts) |-> ts[j].text]

\* C1: the step that ends an export, by pdf.save or by a failure of the capture
\* or of the page loop, leaves texts equal to the list exportToPDF was called
\* with; an export that fails before the capture leaves texts as it is.
C1_RestoredAfterExport ==
    [][/\ ExportEnds => texts' = exportRun[1].texts
       /\ (exportRun = <<>> /\ alert' = ExportError) => texts' = texts]_vars

\* C1 witness: an export has just failed and the list is back with two elements
C1_Witness == alert = ExportError /\ ~isExporting /\ Len(texts) = 2

\* C2: while an export is in flight no step other than the end of the export
\* changes texts.
C2_NoMutationMidExport ==
    [][isExporting => (texts' = texts \/ ExportEnds)]_vars

\* C3: an export that started is followed by a state with isExporting and
\* isCapturing both false, given that the capture promise settles.
C3_ExportEnds == isExporting ~> (~isExporting /\ ~isCapturing)

\* C3 witness: an export has just saved its document and both flags are clear
C3_Witness == saved # <<>> /\ ~isExporting /\ ~isCapturing

\* C4: the document given to pdf.save has one page when the call saw no batch
\* rows, and with allPages and N >= 1 rows it has N pages, page i drawing the
\* texts resolved against row i.
C4_Pages ==
    [][ExportSaves =>
         LET run == exportRun[1]
             pages == saved'[1].pages
         IN  /\ Len(run.batchData) = 0 => Len(pages) = 1
             /\ (run.allPages /\ Len(run.batchData) >= 1) =>
                   /\ Len(pages) = Len(run.batchData)
                   /\ \A i \in 1..Len(pages) :
                        PageTexts(pages[i]) = NonBlank(Resolved(run.texts, run.batchData[i]))]_vars

\* C4 witness: an all-pages document of two pages whose first page draws text
C4_Witness ==
    /\ saved # <<>>
    /\ saved[1].name = "all-pages.pdf"
    /\ Len(saved[1].pages) = 2
    /\ saved[1].pages[1] # <<>>

\* C5: the rows an export targets are all rows in order (allPages with rows),
\* the row at currentBatchIndex alone (rows, not allPages), or one pass without
\* a row, which draws the texts with their tokens as they are.
C5_TargetRows ==
    [][/\ (exportRun = <<>> /\ exportRun' # <<>>) =>
            LET target == exportRun'[1].pagesToExport
                n == Len(batchData)
            IN  /\ (exportRun'[1].allPages /\ n > 0) =>
                       target = [i \in 1..n |-> <<batchData[i]>>]
                /\ (~exportRun'[1].allPages /\ n > 0) =>
                       target = <<<<batchData[currentBatchIndex + 1]>>>>
                /\ n = 0 => target = <<NoRow>>
       /\ ExportSaves =>
            LET run == exportRun[1]
                pages == saved'[1].pages
            IN  /\ Len(pages) = Len(run.pagesToExport)
                /\ \A i \in 1..Len(pages) :
                     PageTexts(pages[i]) =
                        IF run.pagesToExport[i] = NoRow
                        THEN NonBlank(Verbatim(run.texts))
                        ELSE NonBlank(Resolved(run.texts, run.pagesToExport[i][1]))]_vars

\* C5 witness: a single-page document drawn without a row shows a token as typed
C5_Witness ==
    /\ saved # <<>>
    /\ saved[1].name = "text-editor-export.pdf"
    /\ \E k \in 1..Len(saved[1].pages[1]) : saved[1].pages[1][k].text = Token(KeyA)

\* C6: after any sequence of pointer events every element lies within the
\* canvas: 0 <= x, x + width <= canvasWidth, 0 <= y, y + height <= canvasHeight.
C6_WithinCanvas ==
    \A i \in 1..Len(texts) :
        /\ 0 <= texts[i].x
        /\ texts[i].x + ElementWidth(texts[i]) <= canvasWidth
        /\ 0 <= texts[i].y
        /\ texts[i].y + ElementHeight(texts[i]) <= canvasHeight

\* C7: the ids of the elements of the store are pairwise distinct, also when
\* two creations read the same millisecond.
C7_UniqueIds ==
    \A i, j \in 1..Len(texts) : i # j => texts[i].id # texts[j].id

\* C8: duplicateText appends one element that copies the original's text and
\* style, has an id no element of the store had, and lies at (x + 20, y + 20);
\* the elements already there are unchanged.
C8_Duplicate ==
    [][\A id \in Ids(texts), now \in Now :
         DuplicateText(id, now) =>
            LET o == Find(texts, id)
                d == texts'[Len(texts')]
            IN  /\ Len(texts') = Len(texts) + 1
                /\ SubSeq(texts', 1, Len(texts)) = texts
                /\ d.id \notin Ids(texts)
                /\ <<d.text, d.fontSize, d.align, d.bold, d.italic, d.lineHeight, d.padding>>
                     = <<o.text, o.fontSize, o.align, o.bold, o.italic, o.lineHeight, o.padding>>
                /\ d.x = o.x + 20 /\ d.y = o.y + 20]_vars

\* the result expected for a template given as pieces
IsToken(p) == Len(p) >= 5 /\ SubSeq(p, 1, 2) = <<LB, LB>>
KeyOf(p) == SubSeq(p, 3, Len(p) - 2)
\* no token of the flattened template is made of literal pieces
NoSplitToken(ps) == \A i \in 1..(Len(ps) - 1) : ~(ps[i] = <<LB>> /\ ps[i + 1] = <<LB>>)
ExpectedExport(ps, row) ==
    Flatten([i \in 1..Len(ps) |->
                IF IsToken(ps[i])
                THEN IF KeyOf(ps[i]) \in DOMAIN row
                     THEN row[KeyOf(ps[i])]
                     ELSE Bracketed(KeyOf(ps[i]))
                ELSE ps[i]])
ExpectedPreview(ps, row) ==
    Flatten([i \in 1..Len(ps) |->
                IF IsToken(ps[i]) /\ KeyOf(ps[i]) \in DOMAIN row
                THEN row[KeyOf(ps[i])]
                ELSE ps[i]])

C10_PreviewPolicy ==
    (rp.phase = "preview" /\ NoSplitToken(rp.pieces)) =>
        rp.out = ExpectedPreview(rp.pieces, rp.data[1])

\* the template's pieces with every token handed once to the callback of the
\* revision that ran, values put in as they are
SinglePass(ps, row, phase) ==
    Flatten([i \in 1..Len(ps) |->
                IF IsToken(ps[i])
                THEN IF phase = "export"
                     THEN ExportCallback(row, KeyOf(ps[i]), ps[i])
                     ELSE PreviewCallback(row, KeyOf(ps[i]), ps[i])
                ELSE ps[i]])
\* some token of the template has a value that holds a token itself
NestedToken(ps, row) ==
    \E i \in 1..Len(ps) :
        /\ IsToken(ps[i])
        /\ KeyOf(ps[i]) \in DOMAIN row
        /\ row[KeyOf(ps[i])] = Token(KeyA)

\* C11: substitution is not recursive: in both revisions a call puts a row
\* value that holds a token {{key2}} into the result as it is and does not
\* substitute the token inside it.
C11_NotRecursive ==
    (rp.phase \in {"export", "preview"} /\ rp.data # NoRow
        /\ NoSplitToken(rp.pieces) /\ NestedToken(rp.pieces, rp.data[1])) =>
        rp.out = SinglePass(rp.pieces, rp.data[1], rp.phase)

\* C11 witness: {{b}} was substituted by a row whose value for b is {{a}} and
\* whose value for a is b; the result is {{a}}
C11_Witness ==
    /\ rp.phase = "export"
    /\ rp.pieces = <<Token(KeyB)>>
    /\ rp.data = <<(KeyA :> <<"b">>) @@ (KeyB :> Token(KeyA))>>
    /\ rp.out = Token(KeyA)

\* the string holds a token {{identifier}}: two opening braces, one or more
\* word characters, two closing braces
HasToken(s) ==
    \E i \in 1..Len(s), j \in 1..Len(s) :
        /\ i + 3 <= j /\ j + 1 <= Len(s)
        /\ s[i] = LB /\ s[i + 1] = LB /\ s[j] = RB /\ s[j + 1] = RB
        /\ \A k \in (i + 2)..(j - 1) : s[k] \in WordChars

\* C12: when replacePlaceholders(T, R) holds no token {{identifier}}, a second
\* call on that result with the same row returns it unchanged.
C12_Idempotent ==
    [][(rp.phase = "export" /\ rp'.phase = "again" /\ ~HasToken(rp.out)) =>
          rp'.out = rp.out]_vars

\* C12 witness: a template with a token was substituted to a token-free text
\* and the call was made again on it
C12_Witness ==
    /\ rp.phase = "again"
    /\ rp.data # NoRow
    /\ HasToken(Flatten(rp.pieces))
    /\ ~HasToken(ExpectedExport(rp.pieces, rp.data[1]))
    /\ rp.out = ExpectedExport(rp.pieces, rp.data[1])

\* C13: one missing-key policy within the revision: on every page of a saved
\* document the text emitted for an element is the text the preview shows for
\* that element on the page's row (elements that show blank are not drawn).
C13_PreviewIsExport ==
    [][(ExportSaves /\ Len(exportRun[1].batchData) > 0) =>
         LET run == exportRun[1]
             pages == saved'[1].pages
             RowIndex(i) == IF run.allPages THEN i - 1 ELSE run.currentBatchIndex
         IN  \A i \in 1..Len(pages) :
                PageTexts(pages[i]) =
                    NonBlank([j \in 1..Len(run.texts) |->
                                 ShownAt(run.texts[j], run.batchData, RowIndex(i))])]_vars

\* C13 witness: the second row, which lacks the key b, was exported alone and
\* its page and the preview both show [b]
C13_Witness ==
    /\ saved # <<>>
    /\ saved[1].name = "text-editor-export.pdf"
    /\ Len(batchData) = 2 /\ currentBatchIndex = 1
    /\ KeyB \notin DOMAIN batchData[2]
    /\ \E k \in 1..Len(saved[1].pages[1]) : saved[1].pages[1][k].text = Bracketed(KeyB)
    /\ \E j \in 1..Len(texts) :
          texts[j].text = Token(KeyB) /\ Shown(texts[j]) = Bracketed(KeyB)

\* C14: after any loads and prev/next clicks either there are no batch rows
\* or the cursor lies in 0 .. batchData.length - 1.
C14_CursorInRange ==
    batchData = <<>> \/ (0 <= currentBatchIndex /\ currentBatchIndex <= Len(batchData) - 1)

\* C14 witness: the cursor is on the last row of a table of two rows and an
\* element made from a published placeholder is in the store
C14_Witness ==
    /\ Len(batchData) = 2
    /\ currentBatchIndex = 1
    /\ \E i \in 1..Len(texts) : texts[i].text = Token(KeyB)

\* the names of the columns of a parsed table: the keys its rows carry, in
\* header order
ColumnNames(data) ==
    SelectSeq(KeyOrder, LAMBDA k : \E i \in 1..Len(data) : k \in DOMAIN data[i])

\* C15: a load with at least one row replaces the batch rows by the parsed
\* rows, sets the cursor to 0 and sets availablePlaceholders to the column
\* names of the new data, in one step.
C15_LoadReplaces ==
    [][\A d \in CsvLoads :
          (Len(d) > 0 /\ CSVComplete(d)) =>
             /\ batchData' = d
             /\ currentBatchIndex' = 0
             /\ availablePlaceholders' = ColumnNames(d)]_vars

CsvErrorText == "Error parsing CSV file"

SelectedIndex ==
    IF HasId(texts, selectedId)
    THEN CHOOSE i \in 1..Len(texts) :
            texts[i].id = selectedId /\ \A j \in 1..(i - 1) : texts[j].id # selectedId
    ELSE 0
\* the step sets the field of the selected element to v and changes no other
\* element and no other field
OnlySelectedGets(field, v) ==
    texts' = [i \in 1..Len(texts) |->
                 IF i = SelectedIndex THEN Merge(texts[i], field :> v) ELSE texts[i]]

\* C17: every toolbar action sets its default and, when an element is
\* selected, the same field of the selected element to the same value, and
\* changes no other element, field or default; with nothing selected only the
\* default changes.
C17_ToolbarFrame ==
    [][/\ \A dir \in {-1, 1} : FontSizeStep(dir) =>
             /\ OnlySelectedGets("fontSize", fontSize')
             /\ UNCHANGED <<textAlign, isBold, isItalic, lineHeight, padding>>
       /\ \A a \in {"left", "center", "right"} : SetAlign(a) =>
             /\ textAlign' = a /\ OnlySelectedGets("align", a)
             /\ UNCHANGED <<fontSize, isBold, isItalic, lineHeight, padding>>
       /\ ToggleBold =>
             /\ isBold' = ~isBold /\ OnlySelectedGets("bold", isBold')
             /\ UNCHANGED <<fontSize, textAlign, isItalic, lineHeight, padding>>
       /\ ToggleItalic =>
             /\ isItalic' = ~isItalic /\ OnlySelectedGets("italic", isItalic')
             /\ UNCHANGED <<fontSize, textAlign, isBold, lineHeight, padding>>
       /\ \A h \in {10, 15, 30} : SetLineHeight(h) =>
             /\ lineHeight' = h /\ OnlySelectedGets("lineHeight", h)
             /\ UNCHANGED <<fontSize, textAlign, isBold, isItalic, padding>>
       /\ \A q \in {0, 2, 50} : SetPadding(q) =>
             /\ padding' = q /\ OnlySelectedGets("padding", q)
             /\ UNCHANGED <<fontSize, textAlign, isBold, isItalic, lineHeight>>]_vars

\* C18: every toolbar control shows the selected element's value of its field
\* when an element is selected, also when that value is 0 or false, and the
\* default otherwise.
C18_DisplayShowsSelected ==
    <<DisplayedFontSize, DisplayedAlign, DisplayedBold, DisplayedItalic,
      DisplayedLineHeight, DisplayedPadding>>
    = IF selectedText # <<>>
      THEN <<selectedText[1].fontSize, selectedText[1].align, selectedText[1].bold,
             selectedText[1].italic, selectedText[1].lineHeight, selectedText[1].padding>>
      ELSE <<fontSize, textAlign, isBold, isItalic, lineHeight, padding>>

\* C19: the default font size and the font size of every element lie in
\* 8..72; a click on the stepper changes the default by exactly 2 unless that
\* would leave the range, and then leaves it at the end of the range (a click
\* down at 8 leaves 8).
C19_FontSizeRange ==
    /\ [](/\ fontSize \in 8..72
          /\ \A i \in 1..Len(texts) : texts[i].fontSize \in 8..72)
    /\ [][\A dir \in {-1, 1} : FontSizeStep(dir) =>
             fontSize' = IF fontSize + 2 * dir \in 8..72
                         THEN fontSize + 2 * dir
                         ELSE fontSize]_vars

\* C19 witness: the stepper was clicked down to 8 with an element selected,
\* which has size 8 too
C19_Witness ==
    /\ fontSize = 8
    /\ selectedText # <<>>
    /\ selectedText[1].fontSize = 8

\* the step appends one element at (50, 50) that carries the toolbar defaults
\* of the moment, and leaves the elements that were there as they are
CreatedWithDefaults ==
    /\ Len(texts') = Len(texts) + 1
    /\ SubSeq(texts', 1, Len(texts)) = texts
    /\ LET e == texts'[Len(texts')]
       IN  /\ e.x = 50 /\ e.y = 50
           /\ <<e.fontSize, e.align, e.bold, e.italic, e.lineHeight, e.padding>>
                = <<fontSize, textAlign, isBold, isItalic, lineHeight, padding>>

\* C20: add text, and insert placeholder with nothing selected, append one
\* element at (50, 50) with the toolbar defaults of the moment and leave the
\* existing elements unchanged; add text with an empty or whitespace-only
\* input creates nothing.
C20_Creation ==
    [][/\ \A now \in Now : HandleAddText(now) =>
             IF TrimNonEmpty(newText) THEN CreatedWithDefaults ELSE texts' = texts
       /\ \A p \in {KeyA, KeyB}, range \in Ranges, now \in Now :
             (selectedId = NoId /\ InsertPlaceholder(p, range, now)) =>
                 CreatedWithDefaults]_vars

\* C20 witness: a text added before the bold button was pressed and a
\* placeholder inserted after it
C20_Witness ==
    /\ Len(texts) = 2
    /\ texts[1].text = <<"b">> /\ ~texts[1].bold
    /\ texts[2].text = Token(KeyA) /\ texts[2].bold
    /\ texts[2].x = 50 /\ texts[2].y = 50
    /\ isBold

\* C21: clearAllTexts empties the store and clears the selection when the
\* user confirms, and leaves texts and selectedId as they are when the user
\* declines.
C21_ClearAll ==
    [][\A c \in BOOLEAN : ClearAllTexts(c) =>
          IF c THEN texts' = <<>> /\ selectedId' = NoId
               ELSE UNCHANGED <<texts, selectedId>>]_vars

\* C21 witness: the store is empty and nothing is selected after elements
\* were made from the placeholders of a loaded table
C21_Witness ==
    /\ texts = <<>>
    /\ selectedId = NoId
    /\ availablePlaceholders # <<>>
    /\ clock = MaxClock

\* C22: a call of exportToPDF that finds no canvas notifies the user and
\* returns before any side effect: isExporting and isCapturing are not set,
\* texts is unchanged, no export is started and no document is saved.
C22_MissingCanvas ==
    [][alert' = CanvasMissing =>
          /\ UNCHANGED <<texts, isExporting, isCapturing, exportRun>>
          /\ ~isExporting' /\ ~isCapturing'
          /\ saved' = <<>>]_vars

\* C22 witness: the user was notified of the missing canvas with an element
\* in the store and batch rows loaded
C22_Witness ==
    /\ alert = CanvasMissing
    /\ Len(texts) > 0
    /\ Len(batchData) = 2
    /\ ~isExporting /\ ~isCapturing

-----------------------------------------------------------------------------
(* The debounced overflow check *)

\* dragging up to two elements about the canvas, exporting, and the overflow
\* check
NextOverflow ==
    \/ SetNewText(<<"b">>)
    \/ Len(texts) < 2 /\ ~isExporting /\ \E now \in Now : HandleAddText(now)
    \/ \E id \in Ids(texts), off \in GrabOffsets : HandleMouseDown(id, 0, "handle", off)
    \/ \E e \in Pointers : HandleMouseMove(e)
    \/ HandleMouseUp
    \/ ExportStart(FALSE)
    \/ CaptureResolve(0)
    \/ CheckTextOverflow

SpecOverflow == Init /\ [][NextOverflow]_vars

\* every flag of the list is the one the check computes
Settled(ts) == UpdatedTexts(ts) = ts

\* C23: the overflow check writes the list back exactly when a flag differs
\* from the computed one (an unset flag differs from false); the list it
\* leaves is one on which the next check writes nothing, and a check that
\* writes nothing leaves no timeout pending, so the chain check -> write ->
\* check ends after at most two runs.
C23_CheckSettles ==
    [][CheckTextOverflow =>
          /\ (texts' # texts) = ~Settled(texts)
          /\ Settled(texts')
          /\ overflowTimer' = (texts' # texts)]_vars

\* C23 witness: the check has run and written nothing more: no timeout is
\* pending, an element dragged to the bottom edge is flagged and another is not
C23_Witness ==
    /\ ~overflowTimer
    /\ \E i \in 1..Len(texts) : texts[i].isOverflowing = "true"
    /\ \E i \in 1..Len(texts) : texts[i].isOverflowing = "false"

-----------------------------------------------------------------------------
(* Pointer release *)

\* the positions of a list, in order
Positions(ts) == [i \in 1..Len(ts) |-> <<ts[i].x, ts[i].y>>]

\* C24: a pointerUp returns the controller to Idle (isDragging false, grab
\* offset cleared); the guard of handleMouseMove is then false for the
\* listener registered before the release as for the one registered by the
\* next render; while the offset is cleared no pointerMove changes a position,
\* and the offset is set again only by a pointerDown that starts a drag.
C24_UpIsIdle ==
    /\ [][HandleMouseUp =>
             /\ ~isDragging'
             /\ dragStartPosRef' = <<>>
             /\ \A i \in 1..Len(listener) : ~Moves(listener[i], dragStartPosRef')
             /\ \A i \in 1..Len(listener') : ~Moves(listener'[i], dragStartPosRef')]_vars
    /\ [][(dragStartPosRef = <<>> /\ \E e \in Pointers : HandleMouseMove(e)) =>
             Positions(texts') = Positions(texts)]_vars
    /\ [][(dragStartPosRef = <<>> /\ dragStartPosRef' # <<>>) =>
             /\ isDragging'
             /\ HasId(texts, selectedId')
             /\ UNCHANGED texts]_vars

\* C24 witness: the controller is idle after a drag that moved an element to
\* the bottom right corner, and the listener registered is the idle one
C24_Witness ==
    /\ ~isDragging
    /\ dragStartPosRef = <<>>
    /\ listener # <<>>
    /\ \A i \in 1..Len(listener) : ~listener[i].isDragging
    /\ \E i \in 1..Len(texts) : texts[i].x = canvasWidth - 100 /\ texts[i].y = canvasHeight - 30

-----------------------------------------------------------------------------
(* Pointer press *)

\* C25: a pointerDown starts a drag, with the pointer's offset in the element
\* as grab offset, exactly when it is a primary-button press on the move
\* handle; a press on any other part of the element or with another button
\* leaves isDragging and the grab offset as they were.
C25_DragOnlyFromHandle ==
    [][\A id \in Ids(texts), b \in {0, 2}, tg \in MouseTargets, off \in GrabOffsets :
          HandleMouseDown(id, b, tg, off) =>
              IF b = 0 /\ tg = "handle"
              THEN isDragging' /\ dragStartPosRef' = <<off>>
              ELSE UNCHANGED <<isDragging, dragStartPosRef>>]_vars

-----------------------------------------------------------------------------
(* Window listeners *)

\* drags and selection changes while the component is mounted, and its teardown
NextListeners ==
    \/ Mounted /\ NextDrag
    \/ Unmount

SpecListeners == Init /\ [][NextListeners]_vars

\* C26: at every moment at most one mousemove and one mouseup listener of the
\* component are registered on the window, whatever re-renders drags and
\* selection changes caused, and after teardown none is registered.
C26_OneListener ==
    /\ [](Len(listener) <= 1)
    /\ [][Unmount => listener' = <<>>]_vars

\* C26 witness: the component was torn down after a drag (two re-registrations
\* at least) and no listener is registered
C26_Witness ==
    /\ listener = <<>>
    /\ selectedId # NoId
    /\ \E i \in 1..Len(texts) : texts[i].x # 50

-----------------------------------------------------------------------------
(* Frame of a pointer move *)

\* C27: a pointerMove changes only the x and y of the selected element: the
\* list has the same length and order as immediately before the move, every
\* element has its text, style fields and isOverflowing flag of before, and
\* every element other than the selected one its position too.
C27_MoveFrame ==
    [][(\E e \in Pointers : HandleMouseMove(e)) =>
          /\ Len(texts') = Len(texts)
          /\ \A i \in 1..Len(texts) :
                /\ [texts'[i] EXCEPT !.x = texts[i].x, !.y = texts[i].y] = texts[i]
                /\ texts[i].id # selectedId => texts'[i] = texts[i]]_vars

-----------------------------------------------------------------------------
(* The selection *)

\* creating, selecting and removing elements, two at most by the text input,
\* around an export of the page
NextSelection ==
    \/ SetNewText(<<"b">>)
    \/ Len(texts) < 2 /\ \E now \in Now : HandleAddText(now)
    \/ CSVComplete(<<Row1>>)
    \/ \E now \in Now : InsertPlaceholder(KeyA, <<[startOffset |-> 0, endOffset |-> 0]>>, now)
    \/ \E id \in Ids(texts), now \in Now : DuplicateText(id, now)
    \/ \E id \in Ids(texts) : DeleteText(id)
    \/ ClearAllTexts(TRUE)
    \/ \E id \in Ids(texts), off \in GrabOffsets : HandleMouseDown(id, 0, "editable", off)
    \/ ExportStart(FALSE)
    \/ CaptureResolve(0)

SpecSelection == Init /\ [][NextSelection]_vars

\* C28: in every reachable state selectedId is null or the id of an element
\* of the store.
C28_SelectionInStore == selectedId = NoId \/ HasId(texts, selectedId)

-----------------------------------------------------------------------------
(* Editing a previewed template *)

\* typing into and deleting from an element made of a placeholder, with rows
\* loaded and the cursor moving
NextEdit ==
    \/ SetNewText(Token(KeyA))
    \/ texts = <<>> /\ \E now \in Now : HandleAddText(now)
    \/ \E d \in CsvInputs : CSVComplete(d)
    \/ Previous
    \/ NextRow
    \/ \E id \in Ids(texts), edit \in {"append", "backspace"} : HandleTextChange(id, edit)

SpecEdit == Init /\ [][NextEdit]_vars

\* C29: an edit made while a batch row is previewed keeps the stored text a
\* template: after typing a character, which deletes no token, a stored text
\* that held a token still holds one; moving the cursor or loading a CSV
\* changes no stored text.
C29_EditKeepsTemplate ==
    [][/\ \A id \in Ids(texts) :
            (Len(batchData) > 0 /\ HandleTextChange(id, "append")) =>
                \A i \in 1..Len(texts) :
                    (texts[i].id = id /\ HasToken(texts[i].text)) =>
                        HasToken(texts'[i].text)
       /\ (Previous \/ NextRow \/ \E d \in CsvInputs : CSVComplete(d)) =>
            UNCHANGED texts]_vars

-----------------------------------------------------------------------------
(* Determinism of an export *)

\* the pages of a run that starts from the list ts, the rows data, the cursor
\* index and the flag allPages
PagesOf(ts, data, index, allPages) ==
    PageLoop(NewPdf, ts, PagesToExport(allPages, data, index), 0)

\* C30: the pages an export emits are a function of the element list, the
\* batch rows, the cursor and the allPages flag at the call of exportToPDF:
\* the run keeps the values it started from whatever changes while the
\* capture is awaited, and the pages it saves are the pages of those values.
C30_PagesOfInvocation ==
    /\ [][(exportRun = <<>> /\ exportRun' # <<>>) =>
             /\ exportRun'[1].texts = texts
             /\ exportRun'[1].batchData = batchData
             /\ exportRun'[1].currentBatchIndex = currentBatchIndex]_vars
    /\ [][(exportRun # <<>> /\ exportRun' # <<>>) => exportRun' = exportRun]_vars
    /\ [][ExportSaves =>
             saved'[1].pages = PagesOf(exportRun[1].texts, exportRun[1].batchData,
                                       exportRun[1].currentBatchIndex,
                                       exportRun[1].allPages)]_vars

\* C30 witness: the document saved has the first row's page although the
\* cursor was moved to the second row while the capture was awaited
C30_Witness ==
    /\ saved # <<>>
    /\ saved[1].name = "text-editor-export.pdf"
    /\ currentBatchIndex = 1
    /\ Len(saved[1].pages) = 1
    /\ \E k \in 1..Len(saved[1].pages[1]) : saved[1].pages[1][k].text = <<"b">>

====
